---- MODULE Spec2Model ----
(***************************************************************************)
(* Model of the mliev-push Go client: the request signer (sortParams,      *)
(* generateSignature) and the dispatcher (Client.doRequest and the public  *)
(* operations SendMessage, SendBatch, QueryTask).                          *)
(*                                                                         *)
(* Strings that are concatenated, compared or encoded by the code are      *)
(* sequences of one-character strings; JSON texts are such sequences too.  *)
(***************************************************************************)
EXTENDS Integers, Sequences, FiniteSets, TLC

(***************************************************************************)
(* Bounds of the model.                                                    *)
(***************************************************************************)
\* number of calls made on the one Client (they may overlap)
NumCalls == 2
\* the wall clock (Unix seconds) starts here ...
ClockStart == 9
\* ... and is observed up to here
MaxClock == 10
\* most entries of a parameter map handed to sortParams on its own
MaxParams == 2
\* most options passed to NewClient
MaxOpts == 3

(***************************************************************************)
(* Characters and byte order.                                              *)
(***************************************************************************)
\* the characters the model uses, in ascending byte (ASCII) order
CharOrder ==
    << " ", "\"", "%", ",", "-", "/",
       "0", "1", "2", "3", "4", "5", "6", "7", "8", "9",
       ":", "<", "B", "E", "G", "O", "P", "S", "T", "[", "\\", "]", "_",
       "a", "b", "c", "d", "e", "f", "g", "h", "i", "j", "k", "l", "m",
       "n", "o", "p", "q", "r", "s", "t", "u", "v", "w", "x", "y", "z",
       "{", "}" >>

Chars == {CharOrder[i] : i \in 1..Len(CharOrder)}

\* rank of a character in byte order
Code == [ch \in Chars |-> CHOOSE i \in 1..Len(CharOrder) : CharOrder[i] = ch]

Digits == <<"0", "1", "2", "3", "4", "5", "6", "7", "8", "9">>

DigitSet == {Digits[i] : i \in 1..10}

HexSet == DigitSet \cup {"a", "b", "c", "d", "e", "f"}

DigitVal(ch) == (CHOOSE i \in 1..10 : Digits[i] = ch) - 1

\* Go's string comparison: lexicographic by byte
RECURSIVE StrLess(_, _)
StrLess(a, b) ==
    IF a = <<>> THEN b # <<>>
    ELSE IF b = <<>> THEN FALSE
    ELSE IF Head(a) = Head(b) THEN StrLess(Tail(a), Tail(b))
    ELSE Code[Head(a)] < Code[Head(b)]

\* strconv.FormatInt(n, 10)
RECURSIVE FormatNat(_)
FormatNat(n) ==
    IF n < 10 THEN <<Digits[n + 1]>>
    ELSE FormatNat(n \div 10) \o <<Digits[(n % 10) + 1]>>

FormatInt(n) == IF n < 0 THEN <<"-">> \o FormatNat(-n) ELSE FormatNat(n)

(***************************************************************************)
(* Go values that travel through encoding/json.                            *)
(*   JNull        nil (a nil pointer, nil slice, nil interface)            *)
(*   JNum(n)      a number (int, or float64 after decoding)                *)
(*   JStr(s)      a string                                                 *)
(*   JArr(vs)     a slice                                                  *)
(*   JMap(kv)     a non-nil map[string]interface{}                         *)
(*   NilMap       a nil map[string]interface{}                             *)
(*   JObj(fs)     a struct: its emitted fields <<key, value>> in order     *)
(*   Unsupported  a value json.Marshal rejects (NaN, a channel, a func)    *)
(***************************************************************************)
JNull == [t |-> "null"]

JNum(n) == [t |-> "num", v |-> n]

JStr(s) == [t |-> "str", v |-> s]

JArr(vs) == [t |-> "arr", v |-> vs]

JMap(kv) == [t |-> "map", kv |-> kv]

NilMap == [t |-> "nilmap"]

JObj(fs) == [t |-> "obj", fs |-> fs]

Unsupported == [t |-> "unsupported"]

EmptyKV == [k \in {} |-> JNull]

\* len(m) of a map value
MapLen(m) == IF m.t = "map" THEN Cardinality(DOMAIN m.kv) ELSE 0

\* sort.Strings: insertion sort by StrLess
RECURSIVE InsertSorted(_, _)
InsertSorted(k, sorted) ==
    IF sorted = <<>> THEN <<k>>
    ELSE IF StrLess(k, Head(sorted)) THEN <<k>> \o sorted
    ELSE <<Head(sorted)>> \o InsertSorted(k, Tail(sorted))

RECURSIVE SortStrings(_)
SortStrings(keys) ==
    IF keys = <<>> THEN <<>>
    ELSE InsertSorted(Head(keys), SortStrings(Tail(keys)))

\* every order in which the keys of a set can be visited
RECURSIVE Orders(_)
Orders(S) ==
    IF S = {} THEN {<<>>}
    ELSE UNION {{<<x>> \o rest : rest \in Orders(S \ {x})} : x \in S}

\* the keys of a set in ascending byte order
RECURSIVE Ascending(_)
Ascending(S) ==
    IF S = {} THEN <<>>
    ELSE LET least == CHOOSE x \in S : \A y \in S : x = y \/ StrLess(x, y)
         IN <<least>> \o Ascending(S \ {least})

\* the keys of a set in descending byte order
RECURSIVE Descending(_)
Descending(S) ==
    IF S = {} THEN <<>>
    ELSE LET greatest == CHOOSE x \in S : \A y \in S : x = y \/ StrLess(y, x)
         IN <<greatest>> \o Descending(S \ {greatest})

\* a json encoder that emits the keys of a map from the greatest down
MarshalKeyOrderDescending(kv) == Descending(DOMAIN kv)

\* the order in which encoding/json emits the keys of a map: sorted
MarshalKeyOrder(kv) == Ascending(DOMAIN kv)

\* the JSON string literal of s: quotes, and encoding/json's escapes
RECURSIVE EscapeString(_)
EscapeString(s) ==
    IF s = <<>> THEN <<>>
    ELSE (CASE Head(s) = "\"" -> <<"\\", "\"">>
            [] Head(s) = "\\" -> <<"\\", "\\">>
            [] Head(s) = "<" -> <<"\\", "u", "0", "0", "3", "c">>
            [] OTHER -> <<Head(s)>>) \o EscapeString(Tail(s))

EncodeString(s) == <<"\"">> \o EscapeString(s) \o <<"\"">>

\* whether json.Marshal accepts the value
RECURSIVE Marshalable(_)
Marshalable(v) ==
    CASE v.t = "unsupported" -> FALSE
      [] v.t = "arr" -> \A i \in DOMAIN v.v : Marshalable(v.v[i])
      [] v.t = "map" -> \A k \in DOMAIN v.kv : Marshalable(v.kv[k])
      [] v.t = "obj" -> \A i \in DOMAIN v.fs : Marshalable(v.fs[i][2])
      [] OTHER -> TRUE

\* the compact JSON text json.Marshal writes for a value it accepts
RECURSIVE Encode(_)
RECURSIVE EncodeList(_)
RECURSIVE EncodeMembers(_, _)
RECURSIVE EncodeFields(_)
Encode(v) ==
    CASE v.t = "null" -> <<"n", "u", "l", "l">>
      [] v.t = "nilmap" -> <<"n", "u", "l", "l">>
      [] v.t = "num" -> FormatInt(v.v)
      [] v.t = "str" -> EncodeString(v.v)
      [] v.t = "arr" -> <<"[">> \o EncodeList(v.v) \o <<"]">>
      [] v.t = "map" -> <<"{">> \o EncodeMembers(v.kv, MarshalKeyOrder(v.kv)) \o <<"}">>
      [] v.t = "obj" -> <<"{">> \o EncodeFields(v.fs) \o <<"}">>

EncodeList(vs) ==
    IF vs = <<>> THEN <<>>
    ELSE Encode(Head(vs)) \o (IF Tail(vs) = <<>> THEN <<>> ELSE <<",">>)
         \o EncodeList(Tail(vs))

EncodeMembers(kv, keys) ==
    IF keys = <<>> THEN <<>>
    ELSE EncodeString(Head(keys)) \o <<":">> \o Encode(kv[Head(keys)])
         \o (IF Tail(keys) = <<>> THEN <<>> ELSE <<",">>)
         \o EncodeMembers(kv, Tail(keys))

EncodeFields(fs) ==
    IF fs = <<>> THEN <<>>
    ELSE EncodeString(Head(fs)[1]) \o <<":">> \o Encode(Head(fs)[2])
         \o (IF Tail(fs) = <<>> THEN <<>> ELSE <<",">>)
         \o EncodeFields(Tail(fs))

\* json.Marshal(v): the bytes, or an error
Marshal(v) ==
    IF Marshalable(v) THEN [err |-> FALSE, bytes |-> Encode(v)]
    ELSE [err |-> TRUE, bytes |-> <<>>]

(***************************************************************************)
(* json.Unmarshal of a compact JSON text into interface{} values: numbers  *)
(* become float64 (JNum), objects become map[string]interface{} (JMap).    *)
(* A parse step returns [ok, val, next]: next is the index after the value.*)
(***************************************************************************)
ParseFail == [ok |-> FALSE, val |-> JNull, next |-> 0]

\* float64(n): every integer the model reaches is exactly representable
ToFloat64(n) == n

HasPrefixAt(s, i, p) ==
    /\ i + Len(p) - 1 <= Len(s)
    /\ \A j \in 1..Len(p) : s[i + j - 1] = p[j]

\* the digits of s from index i on: [val, next]
RECURSIVE ScanDigits(_, _, _)
ScanDigits(s, i, acc) ==
    IF i <= Len(s) /\ s[i] \in DigitSet
    THEN ScanDigits(s, i + 1, acc * 10 + DigitVal(s[i]))
    ELSE [val |-> acc, next |-> i]

ParseNumber(s, i) ==
    LET neg == s[i] = "-"
        st == IF neg THEN i + 1 ELSE i
        d == ScanDigits(s, st, 0)
    IN IF d.next = st THEN ParseFail
       ELSE [ok |-> TRUE, val |-> JNum(ToFloat64(IF neg THEN -d.val ELSE d.val)),
             next |-> d.next]

\* the string literal whose opening quote is before index i
RECURSIVE ScanString(_, _, _)
ScanString(s, i, acc) ==
    IF i > Len(s) THEN ParseFail
    ELSE IF s[i] = "\"" THEN [ok |-> TRUE, val |-> JStr(acc), next |-> i + 1]
    ELSE IF s[i] = "\\" THEN
        IF HasPrefixAt(s, i + 1, <<"u", "0", "0", "3", "c">>)
        THEN ScanString(s, i + 6, Append(acc, "<"))
        ELSE IF i + 1 <= Len(s) /\ s[i + 1] \in {"\"", "\\"}
        THEN ScanString(s, i + 2, Append(acc, s[i + 1]))
        ELSE ParseFail
    ELSE ScanString(s, i + 1, Append(acc, s[i]))

RECURSIVE ParseValue(_, _)
RECURSIVE ParseElements(_, _, _)
RECURSIVE ParseMembers(_, _, _)
ParseValue(s, i) ==
    IF i > Len(s) THEN ParseFail
    ELSE IF HasPrefixAt(s, i, <<"n", "u", "l", "l">>)
    THEN [ok |-> TRUE, val |-> JNull, next |-> i + 4]
    ELSE IF s[i] = "\"" THEN ScanString(s, i + 1, <<>>)
    ELSE IF s[i] \in DigitSet \cup {"-"} THEN ParseNumber(s, i)
    ELSE IF s[i] = "[" THEN
        IF HasPrefixAt(s, i + 1, <<"]">>)
        THEN [ok |-> TRUE, val |-> JArr(<<>>), next |-> i + 2]
        ELSE ParseElements(s, i + 1, <<>>)
    ELSE IF s[i] = "{" THEN
        IF HasPrefixAt(s, i + 1, <<"}">>)
        THEN [ok |-> TRUE, val |-> JMap(EmptyKV), next |-> i + 2]
        ELSE ParseMembers(s, i + 1, EmptyKV)
    ELSE ParseFail

ParseElements(s, i, acc) ==
    LET e == ParseValue(s, i)
    IN IF ~e.ok \/ e.next > Len(s) THEN ParseFail
       ELSE IF s[e.next] = "," THEN ParseElements(s, e.next + 1, Append(acc, e.val))
       ELSE IF s[e.next] = "]"
       THEN [ok |-> TRUE, val |-> JArr(Append(acc, e.val)), next |-> e.next + 1]
       ELSE ParseFail

\* a later duplicate key overwrites an earlier one, as in a Go map
ParseMembers(s, i, acc) ==
    IF i > Len(s) \/ s[i] # "\"" THEN ParseFail
    ELSE LET k == ScanString(s, i + 1, <<>>)
         IN IF ~k.ok \/ k.next > Len(s) \/ s[k.next] # ":" THEN ParseFail
            ELSE LET e == ParseValue(s, k.next + 1)
                     kv == [x \in DOMAIN acc \cup {k.val.v} |->
                               IF x = k.val.v THEN e.val ELSE acc[x]]
                 IN IF ~e.ok \/ e.next > Len(s) THEN ParseFail
                    ELSE IF s[e.next] = "," THEN ParseMembers(s, e.next + 1, kv)
                    ELSE IF s[e.next] = "}"
                    THEN [ok |-> TRUE, val |-> JMap(kv), next |-> e.next + 1]
                    ELSE ParseFail

\* json.Unmarshal(bytes, &params) with params a map[string]interface{}
\* variable holding `into`: JSON null leaves it as it is, an object fills
\* it, anything else is an error.
UnmarshalMap(bytes, into) ==
    LET r == ParseValue(bytes, 1)
    IN IF ~r.ok \/ r.next # Len(bytes) + 1 THEN [err |-> TRUE, params |-> into]
       ELSE IF r.val.t = "null" THEN [err |-> FALSE, params |-> into]
       ELSE IF r.val.t = "map" THEN [err |-> FALSE, params |-> r.val]
       ELSE [err |-> TRUE, params |-> into]

(***************************************************************************)
(* The signer.                                                             *)
(***************************************************************************)
SeqRange(s) == {s[i] : i \in DOMAIN s}

\* sortParams without its guard on len(params)
sortParamsNoGuard(params, iter) ==
    LET kv == IF params.t = "map" THEN params.kv ELSE EmptyKV
        keys == SortStrings(iter)
        sortedMap == JMap([k \in SeqRange(keys) |-> kv[k]])
        result == Marshal(sortedMap)
    IN result.bytes

\* sortParams(params). `iter` is the order in which `for k := range params`
\* visits the keys, which the Go runtime chooses.
sortParams(params, iter) ==
    IF MapLen(params) = 0 THEN <<>>
    ELSE LET keys == SortStrings(iter)
             sortedMap == JMap([k \in SeqRange(keys) |-> params.kv[k]])
             result == Marshal(sortedMap)
         IN result.bytes

\* hex(HMAC-SHA256(key, msg)), taken as collision-free: the digest stands
\* for exactly its key and message
HmacSha256Hex(key, msg) == [key |-> key, msg |-> msg]

\* a signed content that leaves the nonce out
signContentNoNonce(method, path, sortedParams, timestamp, nonce) ==
    method \o path \o sortedParams \o timestamp

signContent(method, path, sortedParams, timestamp, nonce) ==
    method \o path \o sortedParams \o timestamp \o nonce

generateSignature(method, path, params, timestamp, nonce, appSecret, iter) ==
    LET sortedParams == sortParams(params, iter)
    IN HmacSha256Hex(appSecret,
                     signContent(method, path, sortedParams, timestamp, nonce))

\* the orders `range` may visit a map's keys in
IterOrders(params) == IF params.t = "map" THEN Orders(DOMAIN params.kv) ELSE {<<>>}

(***************************************************************************)
(* errors.go: error values.  An error is nil, an *APIError, or the value   *)
(* fmt.Errorf("...: %w", cause) built in doRequest and the operations.     *)
(***************************************************************************)
NoErr == [kind |-> "nil"]

NewAPIError(code, message) == [kind |-> "api", Code |-> code, Message |-> message]

\* fmt.Errorf(msg + ": %w", cause): a *fmt.wrapError
Errorf(msg, cause) == [kind |-> "wrap", msg |-> msg, cause |-> cause]

\* a check that takes every error for an *APIError
IsAPIErrorAnyError(err) == err # NoErr

\* the type assertion err.(*APIError)
IsAPIError(err) == err.kind = "api"

(***************************************************************************)
(* types.go: request payloads.                                             *)
(***************************************************************************)
\* the untyped nil QueryTask passes as reqData
NoReqData == [t |-> "noreqdata"]

\* a nil *SendMessageRequest or *SendBatchRequest
NilPtr == [t |-> "nilptr"]

\* omitempty on a string or a map field
IsEmptyValue(v) ==
    CASE v.t = "str" -> v.v = <<>>
      [] v.t = "map" -> DOMAIN v.kv = {}
      [] v.t = "nilmap" -> TRUE
      [] OTHER -> FALSE

RECURSIVE OmitEmpty(_)
OmitEmpty(fs) ==
    IF fs = <<>> THEN <<>>
    ELSE IF Head(fs).omitempty /\ IsEmptyValue(Head(fs).val) THEN OmitEmpty(Tail(fs))
    ELSE << <<Head(fs).key, Head(fs).val>> >> \o OmitEmpty(Tail(fs))

Field(key, val, omitempty) == [key |-> key, val |-> val, omitempty |-> omitempty]

KeyChannelID == <<"c", "h", "a", "n", "n", "e", "l", "_", "i", "d">>

KeySignatureName == <<"s", "i", "g", "n", "a", "t", "u", "r", "e", "_", "n", "a", "m", "e">>

KeyReceiver == <<"r", "e", "c", "e", "i", "v", "e", "r">>

KeyReceivers == <<"r", "e", "c", "e", "i", "v", "e", "r", "s">>

KeyTemplateParams ==
    <<"t", "e", "m", "p", "l", "a", "t", "e", "_", "p", "a", "r", "a", "m", "s">>

KeyScheduledAt == <<"s", "c", "h", "e", "d", "u", "l", "e", "d", "_", "a", "t">>

\* the value json.Marshal sees for a *SendMessageRequest
SendMessageRequest(req) ==
    IF req = NilPtr THEN JNull
    ELSE JObj(OmitEmpty(<<
            Field(KeyChannelID, JNum(req.ChannelID), FALSE),
            Field(KeySignatureName, JStr(req.SignatureName), FALSE),
            Field(KeyReceiver, JStr(req.Receiver), FALSE),
            Field(KeyTemplateParams, req.TemplateParams, TRUE),
            Field(KeyScheduledAt, JStr(req.ScheduledAt), TRUE) >>))

\* the value json.Marshal sees for a *SendBatchRequest
SendBatchRequest(req) ==
    IF req = NilPtr THEN JNull
    ELSE JObj(OmitEmpty(<<
            Field(KeyChannelID, JNum(req.ChannelID), FALSE),
            Field(KeySignatureName, JStr(req.SignatureName), FALSE),
            Field(KeyReceivers, req.Receivers, FALSE),
            Field(KeyTemplateParams, req.TemplateParams, TRUE),
            Field(KeyScheduledAt, JStr(req.ScheduledAt), TRUE) >>))

(***************************************************************************)
(* types.go: the response envelope and the result shapes.  Response texts  *)
(* are not taken apart character by character: a body is garbage (not      *)
(* JSON) or a JSON value whose strings are opaque.                         *)
(***************************************************************************)
GarbageBody == [kind |-> "garbage"]

JsonBody(v) == [kind |-> "json", val |-> v]

\* a nil json.RawMessage
NoRaw == [t |-> "noraw"]

Response(code, message, data) == [Code |-> code, Message |-> message, Data |-> data]

Has(v, k) == k \in DOMAIN v.kv

\* json.Unmarshal(respBody, &result) for result of type Response
UnmarshalResponse(body) ==
    IF body.kind = "garbage" THEN [err |-> TRUE, result |-> Response(0, "", NoRaw)]
    ELSE LET v == body.val
         IN IF v.t = "null" THEN [err |-> FALSE, result |-> Response(0, "", NoRaw)]
            ELSE IF v.t # "map" THEN [err |-> TRUE, result |-> Response(0, "", NoRaw)]
            ELSE LET codeOK == ~Has(v, "code") \/ v.kv["code"].t \in {"num", "null"}
                     msgOK == ~Has(v, "message") \/ v.kv["message"].t \in {"str", "null"}
                     code == IF Has(v, "code") /\ v.kv["code"].t = "num"
                             THEN v.kv["code"].v ELSE 0
                     msg == IF Has(v, "message") /\ v.kv["message"].t = "str"
                            THEN v.kv["message"].v ELSE ""
                     data == IF Has(v, "data") THEN v.kv["data"] ELSE NoRaw
                 IN [err |-> ~(codeOK /\ msgOK), result |-> Response(code, msg, data)]

FieldSpec(go, tag, type) == [go |-> go, tag |-> tag, type |-> type]

SendMessageData ==
    { FieldSpec("TaskID", "task_id", "str"),
      FieldSpec("Status", "status", "str"),
      FieldSpec("CreatedAt", "created_at", "str") }

SendBatchData ==
    { FieldSpec("BatchID", "batch_id", "str"),
      FieldSpec("TotalCount", "total_count", "num"),
      FieldSpec("SuccessCount", "success_count", "num"),
      FieldSpec("FailedCount", "failed_count", "num"),
      FieldSpec("CreatedAt", "created_at", "str") }

QueryTaskData ==
    { FieldSpec("ID", "id", "num"),
      FieldSpec("TaskID", "task_id", "str"),
      FieldSpec("AppID", "app_id", "str"),
      FieldSpec("ChannelID", "channel_id", "num"),
      FieldSpec("MessageType", "message_type", "str"),
      FieldSpec("Receiver", "receiver", "str"),
      FieldSpec("Content", "content", "str"),
      FieldSpec("Status", "status", "str"),
      FieldSpec("CallbackStatus", "callback_status", "str"),
      FieldSpec("RetryCount", "retry_count", "num"),
      FieldSpec("MaxRetry", "max_retry", "num"),
      FieldSpec("CreatedAt", "created_at", "str"),
      FieldSpec("UpdatedAt", "updated_at", "str") }

ZeroValue(type) == IF type = "num" THEN 0 ELSE ""

\* json.Unmarshal(resp.Data, &data) for data of the struct type `shape`
UnmarshalData(raw, shape) ==
    LET zero == [go \in {f.go : f \in shape} |->
                    ZeroValue((CHOOSE f \in shape : f.go = go).type)]
    IN IF raw.t = "noraw" THEN [err |-> TRUE, data |-> zero]
       ELSE IF raw.t = "null" THEN [err |-> FALSE, data |-> zero]
       ELSE IF raw.t # "map" THEN [err |-> TRUE, data |-> zero]
       ELSE LET set(f) == Has(raw, f.tag) /\ raw.kv[f.tag].t = f.type
                bad(f) == Has(raw, f.tag) /\ raw.kv[f.tag].t \notin {f.type, "null"}
            IN [err |-> \E f \in shape : bad(f),
                data |-> [go \in {f.go : f \in shape} |->
                            LET f == CHOOSE g \in shape : g.go = go
                            IN IF set(f) THEN raw.kv[f.tag].v ELSE ZeroValue(f.type)]]

(***************************************************************************)
(* The client.                                                             *)
(***************************************************************************)
\* httpClient.Timeout set by NewClient, in seconds
DefaultTimeout == 10

WithHTTPClient(client) == [kind |-> "WithHTTPClient", client |-> client]

WithTimeout(timeout) == [kind |-> "WithTimeout", timeout |-> timeout]

\* opt(c) for one ClientOption
ApplyOption(c, opt) ==
    IF opt.kind = "WithHTTPClient" THEN [c EXCEPT !.httpClient = opt.client]
    ELSE [c EXCEPT !.httpClient.Timeout = opt.timeout]

RECURSIVE ApplyOptions(_, _)
ApplyOptions(c, opts) ==
    IF opts = <<>> THEN c ELSE ApplyOptions(ApplyOption(c, Head(opts)), Tail(opts))

NewClient(baseURL, appID, appSecret, opts) ==
    ApplyOptions([baseURL |-> baseURL, appID |-> appID, appSecret |-> appSecret,
                  httpClient |-> [Timeout |-> DefaultTimeout]], opts)

\* the arguments the program constructs its client with
BaseURL == <<"h", "t", "t", "p", ":", "/", "/", "h">>

AppID == <<"a", "p", "p">>

AppSecret == <<"s", "e", "c">>

MethodPost == <<"P", "O", "S", "T">>

MethodGet == <<"G", "E", "T">>

PathMessages ==
    <<"/", "a", "p", "i", "/", "v", "1", "/", "m", "e", "s", "s", "a", "g", "e", "s">>

PathBatch == PathMessages \o <<"/", "b", "a", "t", "c", "h">>

\* a task path that drops the separator before the task id
PathTaskNoSeparator(taskID) == PathMessages \o taskID

PathTask(taskID) == PathMessages \o <<"/">> \o taskID

(***************************************************************************)
(* doRequest, up to the exchange.                                          *)
(***************************************************************************)
HexDigits == <<"0", "1", "2", "3", "4", "5", "6", "7", "8", "9",
               "a", "b", "c", "d", "e", "f">>

\* a nonce made once and kept
GenNonceCached(src) == [nonce |-> <<"0", "0">>, src |-> src]

\* uuid.New().String(): the source hands out a value it never handed out
\* before (122 random bits taken as collision-free), printed at fixed width
GenNonce(src) ==
    [nonce |-> <<HexDigits[((src \div 16) % 16) + 1], HexDigits[(src % 16) + 1]>>,
     src |-> src + 1]

\* a serialization that goes on with no body and no parameters when
\* json.Marshal fails
SerializeRequestIgnoringErrors(reqData) ==
    IF reqData = NoReqData \/ Marshal(reqData).err
    THEN [err |-> NoErr, bodyBytes |-> <<>>, params |-> NilMap]
    ELSE LET m == Marshal(reqData)
             u == UnmarshalMap(m.bytes, NilMap)
         IN [err |-> NoErr, bodyBytes |-> m.bytes, params |-> u.params]

\* lines 66-82: the body bytes and the parameter map that is signed
SerializeRequest(reqData) ==
    IF reqData = NoReqData
    THEN [err |-> NoErr, bodyBytes |-> <<>>, params |-> NilMap]
    ELSE LET m == Marshal(reqData)
         IN IF m.err
            THEN [err |-> Errorf("marshal request data", "json"),
                  bodyBytes |-> <<>>, params |-> NilMap]
            ELSE LET u == UnmarshalMap(m.bytes, NilMap)
                 IN IF u.err
                    THEN [err |-> Errorf("unmarshal request data to map", "json"),
                          bodyBytes |-> m.bytes, params |-> NilMap]
                    ELSE [err |-> NoErr, bodyBytes |-> m.bytes, params |-> u.params]

\* url.Parse inside http.NewRequestWithContext: of the characters of the
\* model only a malformed percent escape makes it fail
URLParseOK(url) ==
    \A i \in DOMAIN url :
        url[i] = "%" => /\ i + 2 <= Len(url)
                        /\ url[i + 1] \in HexSet
                        /\ url[i + 2] \in HexSet

NoBody == [present |-> FALSE, bytes |-> <<>>]

\* a request whose signature is made over another timestamp than the one
\* it carries
BuildRequestOtherTimestamp(c, method, path, ser, timestamp, nonce, iter) ==
    LET signature == generateSignature(method, path, ser.params, <<"0">>, nonce,
                                       c.appSecret, iter)
        body == IF Len(ser.bodyBytes) > 0
                THEN [present |-> TRUE, bytes |-> ser.bodyBytes] ELSE NoBody
        auth == [h \in {"X-App-Id", "X-Timestamp", "X-Nonce", "X-Signature"} |->
                    CASE h = "X-App-Id" -> [str |-> c.appID]
                      [] h = "X-Timestamp" -> [str |-> timestamp]
                      [] h = "X-Nonce" -> [str |-> nonce]
                      [] h = "X-Signature" -> [sig |-> signature]]
        header == IF method = MethodPost
                  THEN [h \in DOMAIN auth \cup {"Content-Type"} |->
                           IF h = "Content-Type" THEN [str |-> "application/json"]
                           ELSE auth[h]]
                  ELSE auth
    IN IF ~URLParseOK(c.baseURL \o path)
       THEN [err |-> Errorf("create request", "url"), req |-> <<>>]
       ELSE [err |-> NoErr,
             req |-> [method |-> method, url |-> c.baseURL \o path, body |-> body,
                      header |-> header]]

\* a request that carries Content-Type whatever its method
BuildRequestAlwaysContentType(c, method, path, ser, timestamp, nonce, iter) ==
    LET signature == generateSignature(method, path, ser.params, timestamp, nonce,
                                       c.appSecret, iter)
        body == IF Len(ser.bodyBytes) > 0
                THEN [present |-> TRUE, bytes |-> ser.bodyBytes] ELSE NoBody
        header == [h \in {"X-App-Id", "X-Timestamp", "X-Nonce", "X-Signature",
                          "Content-Type"} |->
                    CASE h = "X-App-Id" -> [str |-> c.appID]
                      [] h = "X-Timestamp" -> [str |-> timestamp]
                      [] h = "X-Nonce" -> [str |-> nonce]
                      [] h = "X-Signature" -> [sig |-> signature]
                      [] h = "Content-Type" -> [str |-> "application/json"]]
    IN IF ~URLParseOK(c.baseURL \o path)
       THEN [err |-> Errorf("create request", "url"), req |-> <<>>]
       ELSE [err |-> NoErr,
             req |-> [method |-> method, url |-> c.baseURL \o path, body |-> body,
                      header |-> header]]

\* lines 84-106: the signature and the request handed to the transport
BuildRequest(c, method, path, ser, timestamp, nonce, iter) ==
    LET signature == generateSignature(method, path, ser.params, timestamp, nonce,
                                       c.appSecret, iter)
        url == c.baseURL \o path
        body == IF Len(ser.bodyBytes) > 0
                THEN [present |-> TRUE, bytes |-> ser.bodyBytes] ELSE NoBody
        auth == [h \in {"X-App-Id", "X-Timestamp", "X-Nonce", "X-Signature"} |->
                    CASE h = "X-App-Id" -> [str |-> c.appID]
                      [] h = "X-Timestamp" -> [str |-> timestamp]
                      [] h = "X-Nonce" -> [str |-> nonce]
                      [] h = "X-Signature" -> [sig |-> signature]]
        header == IF method = MethodPost
                  THEN [h \in DOMAIN auth \cup {"Content-Type"} |->
                           IF h = "Content-Type" THEN [str |-> "application/json"]
                           ELSE auth[h]]
                  ELSE auth
    IN IF ~URLParseOK(url)
       THEN [err |-> Errorf("create request", "url"), req |-> <<>>]
       ELSE [err |-> NoErr,
             req |-> [method |-> method, url |-> url, body |-> body, header |-> header]]

(***************************************************************************)
(* doRequest, after the exchange, and the tail of the public operations.   *)
(***************************************************************************)
\* a nil *Response, a nil result
Nil == [nil |-> TRUE]

Ptr(v) == [nil |-> FALSE, v |-> v]

\* a check that lets a nonzero code pass when the envelope carries data
CheckBusinessErrorLenient(result) ==
    IF result.Code # 0 /\ result.Data = NoRaw
    THEN [resp |-> Ptr(result), err |-> NewAPIError(result.Code, result.Message)]
    ELSE [resp |-> Ptr(result), err |-> NoErr]

\* lines 127-132
CheckBusinessError(result) ==
    IF result.Code # 0
    THEN [resp |-> Ptr(result), err |-> NewAPIError(result.Code, result.Message)]
    ELSE [resp |-> Ptr(result), err |-> NoErr]

\* lines 121-132: what doRequest returns for a response body it has read
HandleResponse(body) ==
    LET u == UnmarshalResponse(body)
    IN IF u.err THEN [resp |-> Nil, err |-> Errorf("unmarshal response", "json")]
       ELSE CheckBusinessError(u.result)

ResultShape(name) ==
    CASE name = "SendMessage" -> SendMessageData
      [] name = "SendBatch" -> SendBatchData
      [] name = "QueryTask" -> QueryTaskData

\* an operation that returns an empty result without decoding data
OpReturnZero(name, dr) ==
    IF dr.err # NoErr THEN [result |-> Nil, err |-> dr.err]
    ELSE [result |-> Ptr(UnmarshalData(JNull, ResultShape(name)).data), err |-> NoErr]

\* lines 138-147, 153-162, 169-178: what the operation returns for what
\* doRequest returned
OpReturn(name, dr) ==
    IF dr.err # NoErr THEN [result |-> Nil, err |-> dr.err]
    ELSE LET d == UnmarshalData(dr.resp.v.Data, ResultShape(name))
         IN IF d.err
            THEN [result |-> Nil, err |-> Errorf("unmarshal response data", "json")]
            ELSE [result |-> Ptr(d.data), err |-> NoErr]

(***************************************************************************)
(* Inputs of the calls and answers of the server.                          *)
(***************************************************************************)
Calls == 1..NumCalls

MessageOK ==
    [ChannelID |-> 1, SignatureName |-> <<"a", " ", "b">>, Receiver |-> <<"7">>,
     TemplateParams |-> JMap((<<"c">> :> JStr(<<"1", "<">>)) @@ (<<"b">> :> JNum(2))),
     ScheduledAt |-> <<>>]

\* a message with no template parameters
MessageBare == [MessageOK EXCEPT !.TemplateParams = NilMap]

MessageUnsupported == [MessageOK EXCEPT !.TemplateParams = JMap(<<"c">> :> Unsupported)]

BatchOK ==
    [ChannelID |-> 2, SignatureName |-> <<>>,
     Receivers |-> JArr(<<JStr(<<"7">>), JStr(<<"8">>)>>),
     TemplateParams |-> NilMap, ScheduledAt |-> <<"9">>]

SendMessageRequests == {NilPtr, MessageOK, MessageBare, MessageUnsupported}

SendBatchRequests == {NilPtr, BatchOK}

TaskIDs == {<<"7">>, <<"%">>}

MessageData ==
    JMap([task_id |-> JStr("T1"), status |-> JStr("pending"), created_at |-> JStr("d1")])

BatchData ==
    JMap([batch_id |-> JStr("B1"), total_count |-> JNum(3), success_count |-> JNum(2),
          failed_count |-> JNum(1), created_at |-> JStr("d2")])

TaskData ==
    JMap([id |-> JNum(4), task_id |-> JStr("T2"), app_id |-> JStr("app"),
          channel_id |-> JNum(1), message_type |-> JStr("sms"),
          receiver |-> JStr("7"), content |-> JStr("hi"), status |-> JStr("success"),
          callback_status |-> JStr("delivered"), retry_count |-> JNum(1),
          max_retry |-> JNum(3), created_at |-> JStr("d3"), updated_at |-> JStr("d4")])

\* an object whose task_id and batch_id are numbers
WrongData == JMap([task_id |-> JNum(5), batch_id |-> JNum(6)])

\* the error code of the server used in the answers (ErrCodeInvalidSignature)
ErrCodeInvalidSignature == 20003

Envelope(code, message) == JsonBody(JMap([code |-> code, message |-> message]))

EnvelopeData(code, message, data) ==
    JsonBody(JMap([code |-> code, message |-> message, data |-> data]))

Bodies ==
    { GarbageBody, JsonBody(JNull), JsonBody(JArr(<<>>)),
      Envelope(JStr("0"), JStr("success")),
      Envelope(JNum(0), JStr("success")),
      Envelope(JNum(ErrCodeInvalidSignature), JStr("signature invalid")),
      EnvelopeData(JNum(ErrCodeInvalidSignature), JStr("denied"), MessageData) }
    \cup { EnvelopeData(JNum(0), JStr("success"), d) :
              d \in {JNull, JStr("x"), MessageData, BatchData, TaskData, WrongData} }

AllInputs ==
    [messages |-> SendMessageRequests, batches |-> SendBatchRequests,
     taskIDs |-> TaskIDs, bodies |-> Bodies]

\* the inputs of the calls that overlap
ConcurrentInputs ==
    [messages |-> {MessageBare}, batches |-> {NilPtr},
     taskIDs |-> TaskIDs,
     bodies |-> { GarbageBody,
                  Envelope(JNum(ErrCodeInvalidSignature), JStr("signature invalid")),
                  EnvelopeData(JNum(0), JStr("success"), MessageData) }]

(***************************************************************************)
(* State.                                                                  *)
(***************************************************************************)
VARIABLES
    client,     \* the Client built by NewClient
    now,        \* time.Now().Unix()
    uuidSrc,    \* the state of the UUID generator
    sent,       \* the requests handed to httpClient.Do, in order
    pc,         \* per call: "idle", "inflight", "reading", "done"
    op,         \* per call: the operation invoked and its argument
    local,      \* per call: doRequest's timestamp, nonce, method, path, and
                \* whether it has reached generateSignature (line 85)
    ctxDone,    \* per call: whether the context was done during the exchange
    resp,       \* per call: the response body read, if any
    ret,        \* per call: the (result, error) returned
    sg          \* the signer called on its own: inputs and outputs

vars == <<client, now, uuidSrc, sent, pc, op, local, ctxDone, resp, ret, sg>>

NoOp == [name |-> "none"]

NoLocal ==
    [timestamp |-> <<>>, nonce |-> <<>>, method |-> <<>>, path |-> <<>>,
     signed |-> FALSE]

NoResp == [kind |-> "none"]

NoRet == [result |-> Nil, err |-> NoErr]

SgIdle == [phase |-> "off"]

Init ==
    /\ client = NewClient(BaseURL, AppID, AppSecret, <<>>)
    /\ now = ClockStart
    /\ uuidSrc = 0
    /\ sent = <<>>
    /\ pc = [c \in Calls |-> "idle"]
    /\ op = [c \in Calls |-> NoOp]
    /\ local = [c \in Calls |-> NoLocal]
    /\ ctxDone = [c \in Calls |-> FALSE]
    /\ resp = [c \in Calls |-> NoResp]
    /\ ret = [c \in Calls |-> NoRet]
    /\ sg = SgIdle

(***************************************************************************)
(* Actions of the dispatcher.                                              *)
(***************************************************************************)
\* the operation returns r to its caller
Return(c, r) ==
    /\ pc' = [pc EXCEPT ![c] = "done"]
    /\ ret' = [ret EXCEPT ![c] = r]

\* httpClient.Do(req) is entered (line 109)
Do(c, req) ==
    /\ sent' = Append(sent, [call |-> c, req |-> req])
    /\ pc' = [pc EXCEPT ![c] = "inflight"]
    /\ UNCHANGED ret

\* an operation is invoked and runs doRequest up to the exchange.  Calls
\* are numbered in the order in which they are invoked.
Invoke(c, name, arg, method, path, reqData) ==
    /\ pc[c] = "idle"
    /\ \A d \in Calls : d < c => pc[d] # "idle"
    /\ LET timestamp == FormatInt(now)
           g == GenNonce(uuidSrc)
           ser == SerializeRequest(reqData)
       IN /\ uuidSrc' = g.src
          /\ op' = [op EXCEPT ![c] = [name |-> name, arg |-> arg]]
          /\ local' = [local EXCEPT ![c] = [timestamp |-> timestamp, nonce |-> g.nonce,
                                           method |-> method, path |-> path,
                                           signed |-> ser.err = NoErr]]
          /\ IF ser.err # NoErr
             THEN Return(c, OpReturn(name, [resp |-> Nil, err |-> ser.err]))
                  /\ UNCHANGED sent
             ELSE \E iter \in IterOrders(ser.params) :
                    LET b == BuildRequest(client, method, path, ser, timestamp,
                                          g.nonce, iter)
                    IN IF b.err # NoErr
                       THEN Return(c, OpReturn(name, [resp |-> Nil, err |-> b.err]))
                            /\ UNCHANGED sent
                       ELSE Do(c, b.req)
    /\ UNCHANGED <<client, now, ctxDone, resp, sg>>

SendMessage(c, req) ==
    Invoke(c, "SendMessage", req, MethodPost, PathMessages, SendMessageRequest(req))

SendBatch(c, req) ==
    Invoke(c, "SendBatch", req, MethodPost, PathBatch, SendBatchRequest(req))

QueryTask(c, taskID) ==
    Invoke(c, "QueryTask", taskID, MethodGet, PathTask(taskID), NoReqData)

\* the caller's context is cancelled or reaches its deadline while
\* httpClient.Do has not returned.  (Once Do has returned, a context that
\* is done can only make the read of the body fail: that is ReadFail.)
CtxDone(c) ==
    /\ pc[c] = "inflight"
    /\ ~ctxDone[c]
    /\ ctxDone' = [ctxDone EXCEPT ![c] = TRUE]
    /\ UNCHANGED <<client, now, uuidSrc, sent, pc, op, local, resp, ret, sg>>

\* the clock advances (it is read only when a call is invoked)
Tick ==
    /\ now < MaxClock
    /\ \E c \in Calls : pc[c] = "idle"
    /\ now' = now + 1
    /\ UNCHANGED <<client, uuidSrc, sent, pc, op, local, ctxDone, resp, ret, sg>>

\* the server answers: httpClient.Do returns a response (line 109).  The
\* transport gives up the exchange once the context is done.
Respond(c) ==
    /\ pc[c] = "inflight"
    /\ ~ctxDone[c]
    /\ pc' = [pc EXCEPT ![c] = "reading"]
    /\ UNCHANGED <<client, now, uuidSrc, sent, op, local, ctxDone, resp, ret, sg>>

\* a transport that does not watch the context
DoAbortHang(c) ==
    /\ pc[c] = "inflight"
    /\ ctxDone[c]
    /\ FALSE
    /\ UNCHANGED vars

\* httpClient.Do returns the context's error (lines 109-112)
DoAbort(c) ==
    /\ pc[c] = "inflight"
    /\ ctxDone[c]
    /\ Return(c, OpReturn(op[c].name, [resp |-> Nil, err |-> Errorf("do request", "context")]))
    /\ UNCHANGED <<client, now, uuidSrc, sent, op, local, ctxDone, resp, sg>>

\* httpClient.Do fails: no connection, or httpClient.Timeout (lines 109-112)
DoFail(c) ==
    /\ pc[c] = "inflight"
    /\ Return(c, OpReturn(op[c].name, [resp |-> Nil, err |-> Errorf("do request", "transport")]))
    /\ UNCHANGED <<client, now, uuidSrc, sent, op, local, ctxDone, resp, sg>>

\* io.ReadAll fails (lines 116-119)
ReadFail(c) ==
    /\ pc[c] = "reading"
    /\ Return(c, OpReturn(op[c].name, [resp |-> Nil, err |-> Errorf("read response body", "read")]))
    /\ UNCHANGED <<client, now, uuidSrc, sent, op, local, ctxDone, resp, sg>>

\* a dispatcher that sends the request again on a business error
CompleteRetry(c, body) ==
    /\ pc[c] = "reading"
    /\ resp' = [resp EXCEPT ![c] = body]
    /\ IF IsAPIError(HandleResponse(body).err) /\ Len(sent) < 2 * NumCalls
       THEN /\ sent' = Append(sent, [call |-> c,
                                     req |-> (CHOOSE e \in SeqRange(sent) : e.call = c).req])
            /\ pc' = [pc EXCEPT ![c] = "inflight"]
            /\ UNCHANGED ret
       ELSE /\ Return(c, OpReturn(op[c].name, HandleResponse(body)))
            /\ UNCHANGED sent
    /\ UNCHANGED <<client, now, uuidSrc, op, local, ctxDone, sg>>

\* a dispatcher whose response object is shared by the calls: a call
\* returns what the response last read by any call decodes to
CompleteShared(c, body) ==
    /\ pc[c] = "reading"
    /\ resp' = [resp EXCEPT ![c] = body]
    /\ LET others == {d \in Calls \ {c} : resp[d] # NoResp}
           shared == IF others = {} THEN body ELSE resp[CHOOSE d \in others : TRUE]
       IN Return(c, OpReturn(op[c].name, HandleResponse(shared)))
    /\ UNCHANGED <<client, now, uuidSrc, sent, op, local, ctxDone, sg>>

\* the body is read whole, decoded and classified, and the operation
\* returns (lines 116-132 and the operation's tail)
Complete(c, body) ==
    /\ pc[c] = "reading"
    /\ resp' = [resp EXCEPT ![c] = body]
    /\ Return(c, OpReturn(op[c].name, HandleResponse(body)))
    /\ UNCHANGED <<client, now, uuidSrc, sent, op, local, ctxDone, sg>>

\* one step of the program: a call in `cs` is invoked with an argument from
\* `in`, or goes on; or the environment moves
Step(cs, in) ==
    \/ \E c \in cs, req \in in.messages : SendMessage(c, req)
    \/ \E c \in cs, req \in in.batches : SendBatch(c, req)
    \/ \E c \in cs, taskID \in in.taskIDs : QueryTask(c, taskID)
    \/ \E c \in cs : CtxDone(c)
    \/ Tick
    \/ \E c \in cs : Respond(c)
    \/ \E c \in cs : DoAbort(c)
    \/ \E c \in cs : DoFail(c)
    \/ \E c \in cs : ReadFail(c)
    \/ \E c \in cs, body \in in.bodies : Complete(c, body)

\* overlapping calls on one Client
Next == Step(Calls, ConcurrentInputs)

Spec == Init /\ [][Next]_vars

\* one call on the Client, over every input and every answer
CallNext == Step({1}, AllInputs)

CallSpec == Init /\ [][CallNext]_vars

\* the transport watches the context while the exchange is in flight:
\* httpClient.Do returns once the context is done
LiveSpec == CallSpec /\ \A c \in Calls : WF_vars(DoAbort(c))

(***************************************************************************)
(* The signer called on its own (as client_test.go does): sortParams on    *)
(* two parameter maps, generateSignature on two sets of arguments.  A map  *)
(* is given by the entries inserted into it, in insertion order.           *)
(***************************************************************************)
SigKeys == {<<"b">>, <<"a", "b">>, <<"B">>}

SigVals == {JStr(<<"x", " ">>), JMap(<<"k">> :> JNum(1))}

\* sequences of at most n entries <<key, value>>
RECURSIVE Inserts(_)
Inserts(n) ==
    IF n = 0 THEN {<<>>}
    ELSE Inserts(n - 1) \cup
         { Append(ins, <<k, v>>) :
             ins \in {i \in Inserts(n - 1) : Len(i) = n - 1},
             k \in SigKeys, v \in SigVals }

DistinctKeys(ins) == \A i, j \in DOMAIN ins : i # j => ins[i][1] # ins[j][1]

\* var params map[string]interface{} (nil), or a map literal
ParamInputs ==
    {[nil |-> TRUE, ins |-> <<>>]}
    \cup {[nil |-> FALSE, ins |-> ins] : ins \in {i \in Inserts(MaxParams) : DistinctKeys(i)}}

\* the Go map that holds the inserted entries
RECURSIVE MakeKV(_)
MakeKV(ins) ==
    IF ins = <<>> THEN EmptyKV
    ELSE LET front == MakeKV(SubSeq(ins, 1, Len(ins) - 1))
             last == ins[Len(ins)]
         IN [k \in DOMAIN front \cup {last[1]} |->
               IF k = last[1] THEN last[2] ELSE front[k]]

MakeMap(p) == IF p.nil THEN NilMap ELSE JMap(MakeKV(p.ins))

SortInputs == {[phase |-> "sort", a |-> a, b |-> b] : a, b \in ParamInputs}

SignParams ==
    {p \in ParamInputs : Len(p.ins) <= 1 /\ \A i \in DOMAIN p.ins : p.ins[i][1] = <<"b">>}
    \cup {[nil |-> FALSE, ins |-> ins] :
            ins \in { << <<(<<"b">>), JNum(1)>>, <<(<<"B">>), JNum(1)>> >>,
                      << <<(<<"B">>), JNum(1)>>, <<(<<"b">>), JNum(1)>> >> }}

SignArgs ==
    [method : {MethodGet, MethodPost},
     path : {PathTask(<<>>), PathTask(<<"1">>)},
     params : SignParams,
     timestamp : {<<"1">>, <<"1", "1">>},
     nonce : {<<"0", "a">>, <<"0", "b">>},
     appSecret : {AppSecret}]

SignInputs == {[phase |-> "sign", a |-> a, b |-> b] : a, b \in SignArgs}

SgInit ==
    /\ client = NewClient(BaseURL, AppID, AppSecret, <<>>)
    /\ now = ClockStart
    /\ uuidSrc = 0
    /\ sent = <<>>
    /\ pc = [c \in Calls |-> "idle"]
    /\ op = [c \in Calls |-> NoOp]
    /\ local = [c \in Calls |-> NoLocal]
    /\ ctxDone = [c \in Calls |-> FALSE]
    /\ resp = [c \in Calls |-> NoResp]
    /\ ret = [c \in Calls |-> NoRet]
    /\ sg \in SortInputs \cup SignInputs

\* sortParams(a) and sortParams(b)
CallSortParams ==
    /\ sg.phase = "sort"
    /\ \E ia \in IterOrders(MakeMap(sg.a)), ib \in IterOrders(MakeMap(sg.b)) :
          sg' = [phase |-> "sorted", a |-> sg.a, b |-> sg.b,
                 outA |-> sortParams(MakeMap(sg.a), ia),
                 outB |-> sortParams(MakeMap(sg.b), ib)]
    /\ UNCHANGED <<client, now, uuidSrc, sent, pc, op, local, ctxDone, resp, ret>>

Sign(x, iter) ==
    generateSignature(x.method, x.path, MakeMap(x.params), x.timestamp, x.nonce,
                      x.appSecret, iter)

\* generateSignature on a and on b
CallGenerateSignature ==
    /\ sg.phase = "sign"
    /\ \E ia \in IterOrders(MakeMap(sg.a.params)), ib \in IterOrders(MakeMap(sg.b.params)) :
          sg' = [phase |-> "signed", a |-> sg.a, b |-> sg.b,
                 sigA |-> Sign(sg.a, ia), sigB |-> Sign(sg.b, ib)]
    /\ UNCHANGED <<client, now, uuidSrc, sent, pc, op, local, ctxDone, resp, ret>>

SgNext == CallSortParams \/ CallGenerateSignature

SignerSpec == SgInit /\ [][SgNext]_vars

(***************************************************************************)
(* Properties of the signer.                                               *)
(***************************************************************************)
\* the number of components among method, path, timestamp, nonce in which
\* two sets of arguments differ
ScalarDiffs(a, b) ==
    Cardinality({f \in {"method", "path", "timestamp", "nonce"} : a[f] # b[f]})

\* two maps with the same keys that differ in the value of exactly one key
OneValueDiffers(ma, mb) ==
    /\ ma.t = "map" /\ mb.t = "map"
    /\ DOMAIN ma.kv = DOMAIN mb.kv
    /\ Cardinality({k \in DOMAIN ma.kv : ma.kv[k] # mb.kv[k]}) = 1

\* the arguments differ in exactly one of method, path, a parameter value,
\* timestamp, nonce
DiffersInExactlyOne(a, b) ==
    /\ a.appSecret = b.appSecret
    /\ \/ ScalarDiffs(a, b) = 1 /\ MakeMap(a.params) = MakeMap(b.params)
       \/ ScalarDiffs(a, b) = 0 /\ OneValueDiffers(MakeMap(a.params), MakeMap(b.params))

\* the same method, path, timestamp, nonce and secret, and maps that hold
\* the same entries
SameArguments(a, b) ==
    /\ ScalarDiffs(a, b) = 0
    /\ a.appSecret = b.appSecret
    /\ MakeMap(a.params) = MakeMap(b.params)

\* C8: generateSignature is deterministic and input-sensitive. Two
\* invocations with the same arguments return the same signature, whatever
\* order the runtime visits the map in; two invocations whose arguments
\* differ in exactly one of method, path, a parameter value, timestamp or
\* nonce sign different contents and return different signatures.
C8_SignatureDeterministicAndSensitive ==
    sg.phase = "signed" =>
        /\ SameArguments(sg.a, sg.b) => sg.sigA = sg.sigB
        /\ DiffersInExactlyOne(sg.a, sg.b) =>
              /\ sg.sigA.msg # sg.sigB.msg
              /\ sg.sigA # sg.sigB

\* two signatures of arguments that differ only in one parameter value,
\* or of the same arguments with the map filled in another order
C8_Witness ==
    /\ sg.phase = "signed"
    /\ \/ /\ ScalarDiffs(sg.a, sg.b) = 0
          /\ OneValueDiffers(MakeMap(sg.a.params), MakeMap(sg.b.params))
          /\ sg.sigA # sg.sigB
       \/ /\ SameArguments(sg.a, sg.b)
          /\ sg.a.params.ins # sg.b.params.ins
          /\ sg.sigA = sg.sigB

\* C9: sortParams returns the empty string for a nil map and for an empty
\* map, so a request without payload - QueryTask hands doRequest no data,
\* which leaves params nil - is signed over method + path + "" + timestamp
\* + nonce.
C9_EmptyParamsCanonicalizeToEmptyString ==
    /\ SerializeRequest(NoReqData).params = NilMap
    /\ sg.phase = "sorted" =>
          /\ MapLen(MakeMap(sg.a)) = 0 => sg.outA = <<>>
          /\ MapLen(MakeMap(sg.b)) = 0 => sg.outB = <<>>
    /\ sg.phase = "signed" =>
          /\ MapLen(MakeMap(sg.a.params)) = 0 =>
                sg.sigA.msg = sg.a.method \o sg.a.path \o sg.a.timestamp \o sg.a.nonce
          /\ MapLen(MakeMap(sg.b.params)) = 0 =>
                sg.sigB.msg = sg.b.method \o sg.b.path \o sg.b.timestamp \o sg.b.nonce
          /\ \A taskID \in TaskIDs :
                generateSignature(MethodGet, PathTask(taskID),
                                  SerializeRequest(NoReqData).params, sg.a.timestamp,
                                  sg.a.nonce, sg.a.appSecret, <<>>).msg
                  = MethodGet \o PathTask(taskID) \o sg.a.timestamp \o sg.a.nonce

\* sortParams was applied to a nil map and to an empty map
C9_Witness ==
    /\ sg.phase = "sorted"
    /\ sg.a.nil
    /\ ~sg.b.nil /\ sg.b.ins = <<>>
    /\ sg.outA = <<>> /\ sg.outB = <<>>

\* the characters of a JSON text that lie outside its string literals
RECURSIVE OutsideStrings(_, _, _)
OutsideStrings(s, i, inString) ==
    IF i > Len(s) THEN {}
    ELSE IF inString
    THEN IF s[i] = "\\" THEN OutsideStrings(s, i + 2, TRUE)
         ELSE OutsideStrings(s, i + 1, s[i] # "\"")
    ELSE IF s[i] = "\"" THEN OutsideStrings(s, i + 1, TRUE)
    ELSE {s[i]} \cup OutsideStrings(s, i + 1, FALSE)

\* the top-level keys of a JSON object text, in the order they appear
RECURSIVE CollectKeys(_, _, _)
CollectKeys(s, i, acc) ==
    IF i > Len(s) \/ s[i] # "\"" THEN [ok |-> FALSE, keys |-> acc]
    ELSE LET k == ScanString(s, i + 1, <<>>)
         IN IF ~k.ok \/ k.next > Len(s) \/ s[k.next] # ":"
            THEN [ok |-> FALSE, keys |-> acc]
            ELSE LET e == ParseValue(s, k.next + 1)
                 IN IF ~e.ok \/ e.next > Len(s) THEN [ok |-> FALSE, keys |-> acc]
                    ELSE IF s[e.next] = ","
                    THEN CollectKeys(s, e.next + 1, Append(acc, k.val.v))
                    ELSE [ok |-> s[e.next] = "}" /\ e.next = Len(s),
                          keys |-> Append(acc, k.val.v)]

TopLevelKeys(s) ==
    IF Len(s) < 2 \/ s[1] # "{" THEN [ok |-> FALSE, keys |-> <<>>]
    ELSE IF s = <<"{", "}">> THEN [ok |-> TRUE, keys |-> <<>>]
    ELSE CollectKeys(s, 2, <<>>)

StrictlyAscending(keys) ==
    \A i \in 1..(Len(keys) - 1) : StrLess(keys[i], keys[i + 1])

\* the text is a JSON object without whitespace between its tokens that
\* holds exactly the keys of p, in strictly ascending byte order
CanonicalObject(out, p) ==
    LET t == TopLevelKeys(out)
    IN /\ t.ok
       /\ " " \notin OutsideStrings(out, 1, FALSE)
       /\ SeqRange(t.keys) = DOMAIN MakeMap(p).kv
       /\ StrictlyAscending(t.keys)

\* the same entries, inserted in whatever order
SameEntries(a, b) == ~a.nil /\ ~b.nil /\ SeqRange(a.ins) = SeqRange(b.ins)

\* C10: for every non-empty parameter map sortParams returns a JSON object
\* without whitespace between its tokens whose top-level keys appear in
\* strictly ascending lexicographic order, and the result is the same for
\* every order in which the same entries were inserted (and for every
\* order in which the runtime visits the map).
C10_SortParamsCanonical ==
    sg.phase = "sorted" =>
        /\ MapLen(MakeMap(sg.a)) > 0 => CanonicalObject(sg.outA, sg.a)
        /\ MapLen(MakeMap(sg.b)) > 0 => CanonicalObject(sg.outB, sg.b)
        /\ SameEntries(sg.a, sg.b) => sg.outA = sg.outB

\* the same two entries inserted in two different orders, and sorted
C10_Witness ==
    /\ sg.phase = "sorted"
    /\ SameEntries(sg.a, sg.b)
    /\ Len(sg.a.ins) >= 2
    /\ sg.a.ins # sg.b.ins
    /\ sg.outA = sg.outB

(***************************************************************************)
(* Properties of the dispatcher.                                           *)
(***************************************************************************)
\* the response body of call c is a JSON object that decodes into an
\* envelope
Decoded(c) ==
    /\ resp[c] # NoResp
    /\ resp[c].kind = "json"
    /\ resp[c].val.t = "map"
    /\ ~UnmarshalResponse(resp[c]).err

\* the code of the envelope, read off the body (0 when absent or null)
EnvelopeCode(c) ==
    LET v == resp[c].val
    IN IF Has(v, "code") /\ v.kv["code"].t = "num" THEN v.kv["code"].v ELSE 0

EnvelopeMessage(c) ==
    LET v == resp[c].val
    IN IF Has(v, "message") /\ v.kv["message"].t = "str" THEN v.kv["message"].v ELSE ""

\* C1: for SendMessage, SendBatch and QueryTask: whenever the response
\* body decodes into an envelope whose code is nonzero, the call returns an
\* APIError whose Code and Message are the envelope's code and message, and
\* a nil result.
C1_NonzeroCodeReturnsAPIError ==
    \A c \in Calls :
        (pc[c] = "done" /\ Decoded(c) /\ EnvelopeCode(c) # 0) =>
            /\ ret[c].err.kind = "api"
            /\ ret[c].err.Code = EnvelopeCode(c)
            /\ ret[c].err.Message = EnvelopeMessage(c)
            /\ ret[c].result = Nil

\* a call answered with a nonzero code and a data object has returned
C1_Witness ==
    \E c \in Calls :
        /\ pc[c] = "done"
        /\ Decoded(c)
        /\ EnvelopeCode(c) = ErrCodeInvalidSignature
        /\ Has(resp[c].val, "data")
        /\ ret[c].err = NewAPIError(ErrCodeInvalidSignature, "denied")
        /\ ret[c].result = Nil

\* C2: the error a public operation returns is a business error
\* (IsAPIError) if and only if the response body was decoded into an
\* envelope with a nonzero code; serialization, request-construction,
\* transport, body-read and JSON decode errors are never an APIError.
C2_APIErrorIffNonzeroCode ==
    \A c \in Calls :
        pc[c] = "done" =>
            /\ IsAPIError(ret[c].err) <=> (Decoded(c) /\ EnvelopeCode(c) # 0)
            /\ (ret[c].err # NoErr /\ ~(Decoded(c) /\ EnvelopeCode(c) # 0)) =>
                  ret[c].err.kind = "wrap"

\* a call whose response body was not JSON has returned its decode error
C2_Witness ==
    \E c \in Calls :
        /\ pc[c] = "done"
        /\ resp[c] = GarbageBody
        /\ ret[c].err = Errorf("unmarshal response", "json")
        /\ ~IsAPIError(ret[c].err)

\* the data of the envelope is a JSON object whose members that the shape
\* names have the shape's types
DataOfShape(c) ==
    /\ Has(resp[c].val, "data")
    /\ LET data == resp[c].val.kv["data"]
       IN /\ data.t = "map"
          /\ \A f \in ResultShape(op[c].name) :
                Has(data, f.tag) => data.kv[f.tag].t = f.type

\* C3: for SendMessage, SendBatch and QueryTask: whenever the envelope has
\* code 0 and its data field holds a JSON object of the operation's result
\* shape, the call returns a non-nil result whose fields equal the
\* corresponding fields of data, and a nil error.
C3_SuccessReturnsDecodedData ==
    \A c \in Calls :
        (pc[c] = "done" /\ Decoded(c) /\ EnvelopeCode(c) = 0 /\ DataOfShape(c)) =>
            /\ ret[c].err = NoErr
            /\ ret[c].result # Nil
            /\ ~ret[c].result.nil
            /\ \A f \in ResultShape(op[c].name) :
                  Has(resp[c].val.kv["data"], f.tag) =>
                      ret[c].result.v[f.go] = resp[c].val.kv["data"].kv[f.tag].v

\* SendMessage answered with code 0 and the data of a pending task
C3_Witness ==
    \E c \in Calls :
        /\ pc[c] = "done"
        /\ op[c].name = "SendMessage"
        /\ resp[c] = EnvelopeData(JNum(0), JStr("success"), MessageData)
        /\ ret[c].err = NoErr
        /\ ret[c].result.v.TaskID = "T1"
        /\ ret[c].result.v.Status = "pending"

\* the context of call c is done while its exchange is in flight
AbortPending(c) == pc[c] = "inflight" /\ ctxDone[c]

\* C4: if the caller's context reaches its deadline or is cancelled while
\* the exchange is in flight, the call eventually returns; it returns
\* before a response arrives (it never goes on to read one), with a non-nil
\* error that is not an APIError and with a nil result, and no response
\* envelope is decoded for it.
C4_ContextDoneAbortsExchange ==
    /\ [][\A c \in Calls :
            (AbortPending(c) /\ pc'[c] # pc[c]) =>
                /\ pc'[c] = "done"
                /\ ret'[c].err # NoErr
                /\ ~IsAPIError(ret'[c].err)
                /\ ret'[c].result = Nil
                /\ resp'[c] = NoResp]_vars
    /\ \A c \in Calls : AbortPending(c) ~> (pc[c] = "done" /\ resp[c] = NoResp)

\* a call has returned the context's error without reading a response
C4_Witness ==
    \E c \in Calls :
        /\ pc[c] = "done"
        /\ ctxDone[c]
        /\ resp[c] = NoResp
        /\ ret[c] = [result |-> Nil, err |-> Errorf("do request", "context")]

\* the number of requests call c handed to the transport
Exchanges(c) == Cardinality({i \in DOMAIN sent : sent[i].call = c})

\* C5: no retries: every call of SendMessage, SendBatch or QueryTask
\* performs at most one HTTP exchange, whatever its outcome; a nonzero
\* envelope code never triggers a second request.
C5_AtMostOneExchange ==
    \A c \in Calls :
        /\ Exchanges(c) <= 1
        /\ pc[c] \in {"inflight", "reading"} => Exchanges(c) = 1

\* a call that was answered with a business error has returned after one
\* exchange
C5_Witness ==
    \E c \in Calls :
        /\ pc[c] = "done"
        /\ IsAPIError(ret[c].err)
        /\ Exchanges(c) = 1

\* C6: the nonce and the timestamp are made anew inside every call and are
\* not kept on the client: the Client has no field for them, a call's
\* timestamp is the clock's reading when it is invoked, and no two calls
\* on the one Client, sequential or interleaved, transmit the same X-Nonce.
C6_NonceFresh ==
    /\ [](/\ DOMAIN client = {"baseURL", "appID", "appSecret", "httpClient"}
          /\ \A i, j \in DOMAIN sent :
                i # j => sent[i].req.header["X-Nonce"] # sent[j].req.header["X-Nonce"]
          /\ \A i \in DOMAIN sent :
                sent[i].req.header["X-Nonce"].str = local[sent[i].call].nonce)
    /\ [][\A c \in Calls :
            (pc[c] = "idle" /\ pc'[c] # "idle") =>
                /\ local'[c].timestamp = FormatInt(now)
                /\ \A d \in Calls \ {c} : local'[c].nonce # local[d].nonce]_vars

\* two calls in flight at once in the same second, with different nonces
C6_Witness ==
    /\ Len(sent) >= 2
    /\ sent[1].call # sent[2].call
    /\ pc[sent[1].call] = "inflight" /\ pc[sent[2].call] = "inflight"
    /\ sent[1].req.header["X-Timestamp"] = sent[2].req.header["X-Timestamp"]
    /\ sent[1].req.header["X-Nonce"] # sent[2].req.header["X-Nonce"]

\* what an operation passes to doRequest, from its own argument
OpMethod(o) == IF o.name = "QueryTask" THEN MethodGet ELSE MethodPost

OpPath(o) ==
    CASE o.name = "SendMessage" -> PathMessages
      [] o.name = "SendBatch" -> PathBatch
      [] o.name = "QueryTask" -> PathTask(o.arg)

OpReqData(o) ==
    CASE o.name = "SendMessage" -> SendMessageRequest(o.arg)
      [] o.name = "SendBatch" -> SendBatchRequest(o.arg)
      [] o.name = "QueryTask" -> NoReqData

\* the request that a call's own operation and argument o and its own
\* timestamp and nonce l determine, when the runtime visits the parameter
\* map in the order iter
OwnRequest(o, l, ser, iter) ==
    BuildRequest(NewClient(BaseURL, AppID, AppSecret, <<>>), OpMethod(o), OpPath(o),
                 ser, l.timestamp, l.nonce, iter).req

\* call c returns in this step
Returns(c) == pc[c] # "done" /\ pc'[c] = "done"

\* what call c returns in this step is what its own response decodes to,
\* or, when it has read none, an error of its own and no result
ReturnsOwn(c) ==
    /\ resp'[c] # NoResp =>
          ret'[c] = OpReturn(op'[c].name, HandleResponse(resp'[c]))
    /\ resp'[c] = NoResp =>
          /\ ret'[c].result = Nil
          /\ ret'[c].err.kind = "wrap"

\* a request is handed to the transport in this step
Transmits == Len(sent') = Len(sent) + 1

\* the request handed to the transport in this step is the one its call's
\* own argument, timestamp and nonce determine
TransmitsOwn ==
    LET e == sent'[Len(sent')]
        ser == SerializeRequest(OpReqData(op'[e.call]))
    IN \E iter \in IterOrders(ser.params) :
          e.req = OwnRequest(op'[e.call], local'[e.call], ser, iter)

\* the state that belongs to call c
CallState(c) == <<pc[c], op[c], local[c], ctxDone[c], resp[c], ret[c]>>

\* C7: call isolation: in every interleaving of overlapping calls on one
\* Client no call writes a field of the Client; a step of one call leaves
\* the state of every other call alone; what a call transmits (method,
\* URL, body, headers) is determined by its own argument, timestamp and
\* nonce, and what it returns by its own response; and none of these
\* changes once it is set.
C7_CallIsolation ==
    /\ [][client' = client]_vars
    /\ [][\A c, d \in Calls :
            (c # d /\ CallState(c)' # CallState(c)) => CallState(d)' = CallState(d)]_vars
    /\ [][/\ sent' # sent => Transmits /\ SubSeq(sent', 1, Len(sent)) = sent
          /\ Transmits => TransmitsOwn
          /\ \A c \in Calls :
                /\ pc[c] # "idle" => op'[c] = op[c] /\ local'[c] = local[c]
                /\ Returns(c) => ReturnsOwn(c)
                /\ pc[c] # "done" /\ pc'[c] # "done" => ret'[c] = NoRet
                /\ pc[c] = "done" => CallState(c)' = CallState(c)]_vars

\* two overlapping calls were answered differently and each has returned
\* what its own response decodes to
C7_Witness ==
    /\ Len(sent) >= 2
    /\ \E c, d \in Calls :
          /\ c # d
          /\ pc[c] = "done" /\ pc[d] = "done"
          /\ sent[1].call = c /\ sent[2].call = d
          /\ resp[c] = EnvelopeData(JNum(0), JStr("success"), MessageData)
          /\ resp[d] = Envelope(JNum(ErrCodeInvalidSignature), JStr("signature invalid"))
          /\ ret[c].err = NoErr
          /\ IsAPIError(ret[d].err)

(***************************************************************************)
(* Properties of the requests handed to the transport.                     *)
(***************************************************************************)
\* the part of the request's URL after the client's base URL
RequestPath(req) == SubSeq(req.url, Len(client.baseURL) + 1, Len(req.url))

\* the parameter map doRequest signs for call c
SignedParams(c) == SerializeRequest(OpReqData(op[c])).params

\* C11: every request handed to the transport carries X-App-Id,
\* X-Timestamp, X-Nonce and X-Signature; X-App-Id is the client's appID and
\* X-Signature is generateSignature over the method and path of that
\* request, the call's parameters, the timestamp and nonce that are sent as
\* X-Timestamp and X-Nonce, and the client's appSecret.
C11_AuthHeadersSignTheRequest ==
    \A i \in DOMAIN sent :
        LET req == sent[i].req
            h == req.header
        IN /\ {"X-App-Id", "X-Timestamp", "X-Nonce", "X-Signature"} \subseteq DOMAIN h
           /\ h["X-App-Id"].str = client.appID
           /\ h["X-Timestamp"].str # <<>>
           /\ h["X-Nonce"].str # <<>>
           /\ \A iter \in IterOrders(SignedParams(sent[i].call)) :
                 h["X-Signature"].sig =
                     generateSignature(req.method, RequestPath(req),
                                       SignedParams(sent[i].call),
                                       h["X-Timestamp"].str, h["X-Nonce"].str,
                                       client.appSecret, iter)

\* a SendMessage with template parameters was handed to the transport
C11_Witness ==
    /\ Len(sent) = 1
    /\ op[sent[1].call] = [name |-> "SendMessage", arg |-> MessageOK]
    /\ sent[1].req.header["X-Signature"].sig.key = AppSecret
    /\ Len(sent[1].req.header["X-Signature"].sig.msg) > Len(MethodPost \o PathMessages)

\* the literal paths of the three operations
MessagesLiteral ==
    <<"/", "a", "p", "i", "/", "v", "1", "/", "m", "e", "s", "s", "a", "g", "e", "s">>

BatchLiteral == MessagesLiteral \o <<"/", "b", "a", "t", "c", "h">>

\* the signed content starts with the method and the path
SignsMethodAndPath(req, method, path) ==
    LET msg == req.header["X-Signature"].sig.msg
    IN /\ Len(msg) >= Len(method \o path)
       /\ SubSeq(msg, 1, Len(method \o path)) = method \o path

\* the request has this method and path, on the wire and in the signature
Uses(req, method, path) ==
    /\ req.method = method
    /\ req.url = client.baseURL \o path
    /\ SignsMethodAndPath(req, method, path)

\* C12: each public operation uses a fixed method and path, for the request
\* and for the signature: SendMessage is POST /api/v1/messages, SendBatch
\* is POST /api/v1/messages/batch, QueryTask(taskID) is GET
\* /api/v1/messages/ followed by taskID as given, with no payload; the
\* request URL is the client's baseURL followed by that path.
C12_FixedMethodAndPath ==
    \A i \in DOMAIN sent :
        LET req == sent[i].req
            o == op[sent[i].call]
        IN /\ o.name = "SendMessage" => Uses(req, <<"P", "O", "S", "T">>, MessagesLiteral)
           /\ o.name = "SendBatch" => Uses(req, <<"P", "O", "S", "T">>, BatchLiteral)
           /\ o.name = "QueryTask" =>
                 /\ Uses(req, <<"G", "E", "T">>, MessagesLiteral \o <<"/">> \o o.arg)
                 /\ ~req.body.present
                 /\ req.header["X-Signature"].sig.msg =
                       <<"G", "E", "T">> \o MessagesLiteral \o <<"/">> \o o.arg
                       \o req.header["X-Timestamp"].str \o req.header["X-Nonce"].str

\* a QueryTask was handed to the transport
C12_Witness ==
    /\ Len(sent) = 1
    /\ op[sent[1].call] = [name |-> "QueryTask", arg |-> <<"7">>]
    /\ sent[1].req.method = MethodGet
    /\ ~sent[1].req.body.present

\* C13: in every request built by doRequest the Content-Type:
\* application/json header is set only when a request body is present, and
\* a body is present only for POST; a GET request has neither a body nor a
\* Content-Type header.
C13_ContentTypeOnlyWithBody ==
    \A i \in DOMAIN sent :
        LET req == sent[i].req
        IN /\ "Content-Type" \in DOMAIN req.header =>
                 /\ req.body.present
                 /\ req.header["Content-Type"].str = "application/json"
           /\ req.body.present => req.method = MethodPost
           /\ req.method = MethodGet =>
                 /\ ~req.body.present
                 /\ "Content-Type" \notin DOMAIN req.header

\* a POST with a body and a Content-Type header (the batch request), handed
\* to the transport
C13_Witness ==
    /\ Len(sent) = 1
    /\ op[sent[1].call] = [name |-> "SendBatch", arg |-> BatchOK]
    /\ sent[1].req.body.present
    /\ "Content-Type" \in DOMAIN sent[1].req.header

(***************************************************************************)
(* Signature and body.                                                     *)
(***************************************************************************)
\* the canonical parameter string inside the signed content of a request:
\* what lies between method + path and timestamp + nonce
CanonicalSigned(req) ==
    LET msg == req.header["X-Signature"].sig.msg
        front == Len(req.method) + Len(RequestPath(req))
        back == Len(req.header["X-Timestamp"].str) + Len(req.header["X-Nonce"].str)
    IN SubSeq(msg, front + 1, Len(msg) - back)

\* two texts are JSON and decode to the same value (the members of an
\* object in whatever order)
SameJSON(a, b) ==
    LET pa == ParseValue(a, 1)
        pb == ParseValue(b, 1)
    IN /\ pa.ok /\ pa.next = Len(a) + 1
       /\ pb.ok /\ pb.next = Len(b) + 1
       /\ pa.val = pb.val

\* C14: signature/body consistency: for every call that supplies a payload
\* (any non-nil reqData, a nil *SendMessageRequest or *SendBatchRequest
\* included) the canonical parameter string that is signed and the body
\* that is transmitted encode the same JSON value; a non-empty body is
\* never signed as the empty canonical string.
C14_SignedParamsEncodeTheBody ==
    \A i \in DOMAIN sent :
        LET req == sent[i].req
        IN OpReqData(op[sent[i].call]) # NoReqData =>
              /\ req.body.present => CanonicalSigned(req) # <<>>
              /\ SameJSON(CanonicalSigned(req), req.body.bytes)

\* the same, for the calls whose payload is not a nil pointer
C14_HoldsForNonNilPayload ==
    \A i \in DOMAIN sent :
        LET req == sent[i].req
        IN (OpReqData(op[sent[i].call]) # NoReqData /\ op[sent[i].call].arg # NilPtr) =>
              /\ req.body.present
              /\ CanonicalSigned(req) # <<>>
              /\ SameJSON(CanonicalSigned(req), req.body.bytes)

(***************************************************************************)
(* Serialization failures.                                                 *)
(***************************************************************************)
\* the payload of call c cannot be marshalled to JSON, or its JSON cannot
\* be decoded into a map[string]interface{}
SerializationFails(c) ==
    /\ OpReqData(op[c]) # NoReqData
    /\ LET m == Marshal(OpReqData(op[c]))
       IN m.err \/ UnmarshalMap(m.bytes, NilMap).err

\* C15: if the payload cannot be marshalled to JSON or the JSON cannot be
\* decoded into the generic parameter map, the call returns an error that
\* is not an APIError at once: the step that invokes it ends it, no
\* signature is computed and no request reaches the transport for it.
C15_SerializationFailureReturnsFirst ==
    \A c \in Calls :
        (pc[c] # "idle" /\ SerializationFails(c)) =>
            /\ pc[c] = "done"
            /\ ret[c].result = Nil
            /\ ret[c].err # NoErr
            /\ ~IsAPIError(ret[c].err)
            /\ ret[c].err.msg \in {"marshal request data", "unmarshal request data to map"}
            /\ ~local[c].signed
            /\ Exchanges(c) = 0
            /\ resp[c] = NoResp

\* a SendMessage whose template parameters hold a value json.Marshal
\* rejects has returned
C15_Witness ==
    \E c \in Calls :
        /\ op[c] = [name |-> "SendMessage", arg |-> MessageUnsupported]
        /\ pc[c] = "done"
        /\ ret[c] = [result |-> Nil, err |-> Errorf("marshal request data", "json")]
        /\ sent = <<>>

(***************************************************************************)
(* What the signed content binds.                                          *)
(***************************************************************************)
\* the canonical parameters generateSignature signs for the arguments x
Canonical(x) ==
    sortParams(MakeMap(x.params), Ascending(DOMAIN MakeKV(x.params.ins)))

\* the components the signed content is made of
Components(x) == <<x.method, x.path, Canonical(x), x.timestamp, x.nonce>>

\* C16: the signed content binds the request: two requests signed with the
\* same secret that differ in any component of (method, path, canonical
\* parameters, timestamp, nonce) never have the same signContent, hence
\* never the same signature; paths and timestamps that differ only in
\* where the boundary between them falls are not signed identically.
C16_SignedContentBindsComponents ==
    (/\ sg.phase = "signed"
     /\ sg.a.appSecret = sg.b.appSecret
     /\ Components(sg.a) # Components(sg.b)) =>
        /\ sg.sigA.msg # sg.sigB.msg
        /\ sg.sigA # sg.sigB

(***************************************************************************)
(* Construction of the client: NewClient applied to a list of options.     *)
(***************************************************************************)
\* the *http.Client values a caller passes to WithHTTPClient, by their
\* Timeout in seconds (0: no timeout, the zero value)
CustomHTTPClients == {[Timeout |-> 0], [Timeout |-> 60]}

\* the options a caller passes
Options ==
    {WithTimeout(d) : d \in {15, 30}} \cup {WithHTTPClient(h) : h \in CustomHTTPClients}

\* the option lists of at most n options
RECURSIVE OptionListsUpTo(_)
OptionListsUpTo(n) ==
    IF n = 0 THEN {<<>>}
    ELSE OptionListsUpTo(n - 1) \cup
         { Append(l, o) : l \in {x \in OptionListsUpTo(n - 1) : Len(x) = n - 1},
                          o \in Options }

OptionLists == OptionListsUpTo(MaxOpts)

\* no client constructed yet
NoClient == [built |-> FALSE]

NcInit ==
    /\ client = NoClient
    /\ now = ClockStart
    /\ uuidSrc = 0
    /\ sent = <<>>
    /\ pc = [c \in Calls |-> "idle"]
    /\ op = [c \in Calls |-> NoOp]
    /\ local = [c \in Calls |-> NoLocal]
    /\ ctxDone = [c \in Calls |-> FALSE]
    /\ resp = [c \in Calls |-> NoResp]
    /\ ret = [c \in Calls |-> NoRet]
    /\ sg \in {[phase |-> "options", opts |-> l] : l \in OptionLists}

\* client := NewClient(baseURL, appID, appSecret, opts...)
CallNewClient ==
    /\ sg.phase = "options"
    /\ client' = NewClient(BaseURL, AppID, AppSecret, sg.opts)
    /\ sg' = [phase |-> "constructed", opts |-> sg.opts]
    /\ UNCHANGED <<now, uuidSrc, sent, pc, op, local, ctxDone, resp, ret>>

NcNext == CallNewClient

NewClientSpec == NcInit /\ [][NcNext]_vars

\* the timeouts the WithTimeout options of a list name
TimeoutsGiven(opts) ==
    {opts[i].timeout : i \in {j \in DOMAIN opts : opts[j].kind = "WithTimeout"}}

\* C17: construction options are order-independent: for an option list
\* that contains WithTimeout(d) the constructed client's exchange timeout
\* is d, whether WithHTTPClient comes before or after WithTimeout; with no
\* options the timeout is the default of 10 seconds.
C17_OptionsOrderIndependent ==
    sg.phase = "constructed" =>
        /\ sg.opts = <<>> => client.httpClient.Timeout = 10
        /\ \A d \in TimeoutsGiven(sg.opts) :
              TimeoutsGiven(sg.opts) = {d} => client.httpClient.Timeout = d

\* the same, for the lists in which no WithHTTPClient follows a WithTimeout
C17_HoldsWhenTimeoutComesLast ==
    (/\ sg.phase = "constructed"
     /\ \A i, j \in DOMAIN sg.opts :
            (sg.opts[i].kind = "WithTimeout" /\ sg.opts[j].kind = "WithHTTPClient") => j < i) =>
        /\ sg.opts = <<>> => client.httpClient.Timeout = 10
        /\ \A d \in TimeoutsGiven(sg.opts) :
              TimeoutsGiven(sg.opts) = {d} => client.httpClient.Timeout = d

====
